---- MODULE Spec2Model ----
(***************************************************************************)
(* Transaction reconciliation of BoomBank: the Transaction documents, the  *)
(* owner's balance, and the request handlers, M-Pesa webhooks and cron     *)
(* jobs that read and write them.                                          *)
(*                                                                         *)
(* Every handler is an async function.  Node runs one handler at a time    *)
(* up to its next database or gateway await, so a handler is a process     *)
(* whose steps are its database operations; a step is one database         *)
(* operation together with the synchronous code that precedes it.  A       *)
(* handler works on the copy of a document it loaded (find / findOne /     *)
(* findById); save() of a loaded document writes the paths whose value     *)
(* was changed since the load and nothing else.                            *)
(***************************************************************************)
EXTENDS Integers, Sequences, FiniteSets, Bags, TLC

\* ---------------------------------------------------------------- bounds
MaxTx == 1
MaxProcs == 2       \* handlers in flight at the same time
MaxOps == 3         \* handlers started in one behaviour
StartBalance == 200 \* the balance every user starts with

\* ------------------------------------------------------ program constants
DepositMin == 10
DepositMax == 100000
WithdrawMin == 100
WithdrawMax == 200000
WithdrawalLimitDefault == 200000
DepositPendingLimit == 3
WithdrawPendingLimit == 2
MaxRetriesDefault == 3
BalanceMin == 0
BetMin == 10
BetMax == 10000

\* ----------------------------------------------------------- input sets
Users == {"u1"}
\* who sends a request about an entry: its owner, or another signed-in user
Requesters == Users \cup {"u2"}
Amounts == {5, 100}
TxIds == 1..MaxTx
\* now - createdAt against the three cut-offs of the cron jobs, as of the
\* last cron run that looked at it:
\* 0: younger than 1 hour, 1: 1 hour .. 24 hours, 2: 24 hours .. 7 days,
\* 3: older than 7 days
Ages == 0..3
\* ResultCode of a callback or of a status query; "103" is the code the
\* sweepers read as "timeout, keep pending", "1032" stands for every other
\* failure code
ResultCodes == {"0", "1032", "103"}

Statuses == {"pending", "processing", "completed", "failed", "cancelled"}
NonTerminal == {"pending", "processing"}
Terminal == {"completed", "cancelled"}

VARIABLES
    txs,        \* the Transaction collection, by checkoutRequestId
    issued,     \* number of checkout request ids the gateway has handed out
    balance,    \* User.balance of every user
    procs,      \* the bag of handlers in flight, each with its local variables
    ops,        \* handlers started so far
    games,      \* number of documents in the Game collection
    users,      \* the ids of the User documents
    game,       \* the Game document of the round in play, NoGame without one
    account,    \* the otp and isVerified paths of the User signing in
    wrong       \* wrong codes submitted against the otp since it was generated

vars == <<txs, issued, balance, procs, ops, games, users, game, account, wrong>>

NoTx == [status |-> "none", type |-> "none", amount |-> 0, user |-> "none",
         retryCount |-> 0, maxRetries |-> 0, age |-> 0,
         checkoutRequestId |-> 0, netAmount |-> 0]

\* user.otp is undefined
NoOtp == [code |-> "none", attempts |-> 0]

\* a verified user with no OTP outstanding
Verified == [otp |-> NoOtp, isVerified |-> TRUE]

\* no Game document
NoGame == [status |-> "none", userId |-> "none", revealedTiles |-> <<>>,
           tilesRevealed |-> 0, bombPositions |-> {}, betAmount |-> 0, currentMultiplier |-> 0,
           winnings |-> 0]

Idle == [op |-> "idle", pc |-> "idle", user |-> "none", tx |-> 0,
         lst |-> "none", code |-> "none", amt |-> 0, ubal |-> 0,
         queue |-> <<>>, prev |-> "none"]

Exists(t) == txs[t].status # "none"

\* ------------------------------------------------------ Transaction model

\* a Transaction that is created in another status and net of a fee
NewTransactionNetOfFee(u, type, amount, cid) ==
    [status |-> "processing", type |-> type, amount |-> amount, user |-> u,
     retryCount |-> 0, maxRetries |-> MaxRetriesDefault, age |-> 0,
     checkoutRequestId |-> cid, netAmount |-> amount - 1]

\* new Transaction({... status: 'pending' ...}) with the schema defaults;
\* cid is the CheckoutRequestID of the gateway's answer
NewTransaction(u, type, amount, cid) ==
    [status |-> "pending", type |-> type, amount |-> amount, user |-> u,
     retryCount |-> 0, maxRetries |-> MaxRetriesDefault, age |-> 0,
     checkoutRequestId |-> cid, netAmount |-> amount]

\* a save() that writes the whole loaded document back
SaveWholeDocument(stored, loaded, new) == new

\* document.save() of a loaded document: a path is written when its value
\* differs from the loaded one, otherwise the stored value stays
SavePath(stored, loaded, new) == IF new # loaded THEN new ELSE stored

\* transactionSchema.methods.markAsCompleted: the status it leaves
markAsCompleted(st) == "completed"

\* transactionSchema.methods.markAsFailed: the status it leaves
markAsFailed(st) == "failed"

\* transactionSchema.methods.incrementRetryCount on a loaded document
\* with status st, retryCount rc: the [status, retryCount] it leaves
incrementRetryCount(st, rc, max) ==
    [status |-> IF rc + 1 >= max THEN "cancelled" ELSE st,
     retryCount |-> rc + 1]

\* transactionSchema.statics.findByCheckoutId: the id, or 0 for null
findByCheckoutId(cid) == IF cid \in TxIds /\ Exists(cid) THEN cid ELSE 0

\* Transaction.find({user, status: {$in: ['pending','processing']}})
PendingOf(u) ==
    {t \in DOMAIN txs : txs[t].user = u /\ txs[t].status \in NonTerminal}

\* a set of ids as the sequence of loaded documents a find() returns
RECURSIVE Snapshot(_)
Snapshot(S) ==
    IF S = {} THEN <<>>
    ELSE LET t == CHOOSE x \in S : \A y \in S : x <= y
         IN <<[id |-> t, st |-> txs[t].status, rc |-> txs[t].retryCount]>>
            \o Snapshot(S \ {t})

\* Date.now() of a cron run: the ages the transactions can have by then.
\* A transaction does not get younger, and one created earlier is not the
\* younger of two.
Elapsed ==
    {ages \in [TxIds -> Ages] :
        /\ \A t \in TxIds : IF Exists(t) THEN ages[t] >= txs[t].age
                                         ELSE ages[t] = 0
        /\ \A t, o \in TxIds :
              (o < t /\ Exists(o) /\ Exists(t)) => ages[o] >= ages[t]}

\* transactionSchema.statics.findPendingTransactions: created in the last 24h
findPendingTransactions(ages) ==
    {t \in TxIds : txs[t].status \in NonTerminal /\ ages[t] <= 1}

\* the find of processStuckTransactions: created more than 1 hour ago
findStuckTransactions(ages) ==
    {t \in TxIds : txs[t].status \in NonTerminal /\ ages[t] >= 1}

\* the collection with the ages of the moment
Aged(ages) == [t \in TxIds |-> [txs[t] EXCEPT !.age = ages[t]]]

\* ------------------------------------------------------------- validation
validateDeposit(amount) == amount >= DepositMin /\ amount <= DepositMax

\* a validation chain that lets every amount through
validateNothing(amount) == TRUE

validateWithdrawal(amount) == amount >= WithdrawMin /\ amount <= WithdrawMax

\* body('betAmount').isFloat({ min: 10, max: 10000 })
validateBet(amount) == amount >= BetMin /\ amount <= BetMax

\* a schema without a minimum for balance
BalanceUnchecked(b) == TRUE

\* userSchema balance: { min: 0 }, checked by user.save()
BalanceValid(b) == b >= BalanceMin

\* ----------------------------------------------------------------- Init
Init ==
    /\ txs = [t \in TxIds |-> NoTx]
    /\ issued = 0
    /\ balance = [u \in Users |-> StartBalance]
    /\ procs = EmptyBag
    /\ ops = 0
    /\ games = 0
    /\ users = Requesters
    /\ game = NoGame
    /\ account = Verified
    /\ wrong = 0

\* the handlers in flight
Handlers == BagToSet(procs)

\* res.json(...) of a request that is refused is being written
Responding == \E h \in Handlers : h.pc = "respond"

\* DELETE /users/:userId is at work
Deleting == \E h \in Handlers : h.op = "adminDelete" /\ h.pc # "respond"

\* the handlers that can take a step: a response is written out before
\* anything else is looked at
Ready == IF Responding THEN {} ELSE Handlers

\* a request or cron run is taken up while there is room for a handler
CanStart ==
    /\ ~Responding /\ ~Deleting
    /\ BagCardinality(procs) < MaxProcs /\ ops < MaxOps

\* the response of a request the route refuses: the HTTP status (or the
\* ResultCode of a webhook's acknowledgement) and what the message says
Response(op, code, u, t, amount, msg) ==
    [Idle EXCEPT !.op = op, !.pc = "respond", !.code = code, !.user = u,
                 !.tx = t, !.amt = amount, !.lst = msg]

\* handler h returns
Finish(h) == procs' = procs (-) SetToBag({h})

\* handler h goes on as r; the record Idle stands for a handler that returned
Move(h, r) ==
    procs' = IF r = Idle THEN procs (-) SetToBag({h})
             ELSE (procs (-) SetToBag({h})) (+) SetToBag({r})

\* a new handler r is in flight, unless it returned at once
Begin(r) ==
    procs' = IF r = Idle THEN procs ELSE procs (+) SetToBag({r})

\* Date.now() of a cron job that fires: no job fires while a response is
\* written or once MaxOps handlers have started
Clock == IF ~Responding /\ ~Deleting /\ ops < MaxOps THEN Elapsed ELSE {}

\* a request or cron run is taken up and goes on as r
Start(r) ==
    /\ CanStart
    /\ ops' = ops + 1
    /\ Begin(r)

\* the auth middleware: User.findById(decoded.userId) finds the user
auth(u) == u \in users

\* 'Invalid token. User not found.'
Unauthorized(op, u, t, amount) == Response(op, "401", u, t, amount, "noUser")

\* the response is sent
Respond(h) ==
    /\ h.pc = "respond"
    /\ Finish(h)
    /\ UNCHANGED <<txs, issued, balance, ops, games, users, game, account, wrong>>

\* ------------------------------------------------- handler-local helpers
Sweepers == {"pendingSweep", "stuckSweep"}

\* the loop of a sweeper moves on to the next loaded transaction
SweepNext(r) ==
    IF Len(r.queue) <= 1 THEN Idle
    ELSE [Idle EXCEPT !.op = r.op, !.pc = "sw_query", !.queue = Tail(r.queue)]

\* handleSTKPushCallback returns (or throws into a caller that only logs)
CallbackReturn(r) == IF r.op \in Sweepers THEN SweepNext(r) ELSE Idle

\* handleSTKPushCallback is done, with result.success or by throwing: the
\* webhook acknowledges with ResultCode '0' or '1' (prev keeps the status
\* the callback had loaded), any other caller goes on
CallbackDone(r, success) ==
    IF r.op = "callback"
    THEN [Response("callback", IF success THEN "0" ELSE "1", "none", r.tx, 0,
                   IF success THEN "success" ELSE "failed")
            EXCEPT !.prev = r.lst]
    ELSE CallbackReturn(r)

\* handleSTKPushCallback up to its first database read: findByCheckoutId,
\* 'Transaction not found' when there is none
CallbackEnter(r, cid, code) ==
    IF findByCheckoutId(cid) = 0
    THEN IF r.op = "callback"
         THEN Response("callback", "1", "none", cid, 0, "notFound")
         ELSE CallbackReturn(r)
    ELSE [r EXCEPT !.pc = "cb_save", !.tx = cid, !.code = code,
                   !.lst = txs[cid].status]

\* ----------------------------------------------------- POST /deposit
\* validation, pending-count check (payment.js 37-77)
DepositStart(u, amount) ==
    /\ Start(IF ~auth(u) THEN Unauthorized("deposit", u, 0, amount)
             ELSE IF /\ validateDeposit(amount)
                     /\ Cardinality(PendingOf(u)) < DepositPendingLimit
             THEN [Idle EXCEPT !.op = "deposit", !.pc = "gateway",
                               !.user = u, !.amt = amount]
             ELSE Response("deposit", "400", u, 0, amount, "rejected"))
    /\ UNCHANGED <<txs, issued, balance, games, users, game, account, wrong>>

\* the route's catch of an initiate call that threw: 500, with what made
\* it throw
InitiateFailed(h, answer) ==
    Response(h.op, "500", h.user, 0, h.amt,
             IF answer = "error" THEN "unreachable" ELSE "refused")

\* initiateSTKPush: the gateway answers the push request; ResponseCode '0'
\* carries a new CheckoutRequestID, another ResponseCode or a network error
\* ("error") throws
initiateSTKPush(h, answer) ==
    /\ h.op = "deposit" /\ h.pc = "gateway"
    /\ IF answer = "0"
       THEN /\ issued < Len(txs)
            /\ issued' = issued + 1
            /\ Move(h, [h EXCEPT !.pc = "saveTx", !.tx = issued + 1])
       ELSE /\ Move(h, InitiateFailed(h, answer))
            /\ UNCHANGED issued
    /\ UNCHANGED <<txs, balance, ops, games, users, game, account, wrong>>

\* initiateSTKPush: transaction.save() of the new pending deposit
initiateSTKPushSave(h) ==
    /\ h.op = "deposit" /\ h.pc = "saveTx"
    /\ txs' = [txs EXCEPT ![h.tx] =
                   NewTransaction(h.user, "deposit", h.amt, h.tx)]
    /\ Finish(h)
    /\ UNCHANGED <<issued, balance, ops, games, users, game, account, wrong>>

\* ----------------------------------------------------- POST /withdraw
\* validation, balance check, pending-count check, limits (payment.js 111-182)
WithdrawStart(u, amount) ==
    /\ Start(IF ~auth(u) THEN Unauthorized("withdraw", u, 0, amount)
             ELSE IF /\ validateWithdrawal(amount)
                     /\ ~(balance[u] < amount)
                     /\ Cardinality(PendingOf(u)) < WithdrawPendingLimit
                     /\ ~(amount > WithdrawalLimitDefault)
             THEN [Idle EXCEPT !.op = "withdraw", !.pc = "gateway",
                               !.user = u, !.amt = amount,
                               !.ubal = balance[u]]
             ELSE Response("withdraw", "400", u, 0, amount, "rejected"))
    /\ UNCHANGED <<txs, issued, balance, games, users, game, account, wrong>>

\* initiateWithdrawal: the gateway answers the payment request
initiateWithdrawal(h, answer) ==
    /\ h.op = "withdraw" /\ h.pc = "gateway"
    /\ IF answer = "0"
       THEN /\ issued < Len(txs)
            /\ issued' = issued + 1
            /\ Move(h, [h EXCEPT !.pc = "saveTx", !.tx = issued + 1])
       ELSE /\ Move(h, InitiateFailed(h, answer))
            /\ UNCHANGED issued
    /\ UNCHANGED <<txs, balance, ops, games, users, game, account, wrong>>

\* initiateWithdrawal: transaction.save() of the new pending withdrawal
initiateWithdrawalSave(h) ==
    /\ h.op = "withdraw" /\ h.pc = "saveTx"
    /\ txs' = [txs EXCEPT ![h.tx] =
                   NewTransaction(h.user, "withdrawal", h.amt, h.tx)]
    /\ Move(h, [h EXCEPT !.pc = "saveUser"])
    /\ UNCHANGED <<issued, balance, ops, games, users, game, account, wrong>>

\* POST /withdraw: user.balance -= amount; user.save() on the user document
\* loaded before the checks
WithdrawSaveUser(h) ==
    /\ h.op = "withdraw" /\ h.pc = "saveUser"
    /\ LET r == h
           nb == r.ubal - r.amt
       IN IF BalanceValid(nb)
          THEN balance' = [balance EXCEPT ![r.user] = nb]
          ELSE UNCHANGED balance
    /\ Finish(h)
    /\ UNCHANGED <<txs, issued, ops, games, users, game, account, wrong>>

\* ------------------------------------------------------- POST /start
\* a game is started: validation, User.findById, balance check
GameStart(u, bet) ==
    /\ Start(IF ~auth(u) THEN Unauthorized("game", u, 0, bet)
             ELSE IF validateBet(bet) /\ ~(balance[u] < bet)
             THEN [Idle EXCEPT !.op = "game", !.pc = "g_saveUser",
                               !.user = u, !.amt = bet, !.ubal = balance[u]]
             ELSE Response("game", "400", u, 0, bet, "rejected"))
    /\ UNCHANGED <<txs, issued, balance, games, users, game, account, wrong>>

\* user.balance -= betAmount; Promise.all([game.save(), user.save()]) with
\* the user loaded for the check: the Game document is stored whether or
\* not the user's save passes validation
GameSaveUser(h) ==
    /\ h.op = "game" /\ h.pc = "g_saveUser"
    /\ LET nb == h.ubal - h.amt
       IN IF BalanceValid(nb)
          THEN balance' = [balance EXCEPT ![h.user] = nb]
          ELSE UNCHANGED balance
    /\ games' = games + 1
    /\ Finish(h)
    /\ UNCHANGED <<txs, issued, ops, users, game, account, wrong>>

\* ------------------------------------------- MpesaService.handleSTKPushCallback
\* POST /mpesa/callback: the webhook hands the body to handleSTKPushCallback
CallbackStart(cid, code) ==
    /\ Start(CallbackEnter([Idle EXCEPT !.op = "callback"], cid, code))
    /\ UNCHANGED <<txs, issued, balance, games, users, game, account, wrong>>

\* markAsCompleted / markAsFailed on the loaded transaction, transaction.save()
handleSTKPushCallbackSave(h) ==
    /\ h.pc = "cb_save"
    /\ LET r == h
           t == r.tx
       IN IF r.code = "0"
          THEN /\ txs' = [txs EXCEPT ![t].status =
                              SavePath(@, r.lst, markAsCompleted(r.lst))]
               /\ Move(h, [r EXCEPT !.pc = "cb_findUser",
                                    !.prev = txs[t].status])
          ELSE /\ txs' = [txs EXCEPT ![t].status =
                              SavePath(@, r.lst, markAsFailed(r.lst))]
               /\ Move(h, CallbackDone(r, FALSE))
    /\ UNCHANGED <<issued, balance, ops, games, users, game, account, wrong>>

\* success branch: User.findById(transaction.user)
handleSTKPushCallbackFindUser(h) ==
    /\ h.pc = "cb_findUser"
    /\ Move(h, [h EXCEPT !.pc = "cb_saveUser",
                                !.ubal = balance[txs[h.tx].user]])
    /\ UNCHANGED <<txs, issued, balance, ops, games, users, game, account, wrong>>

\* the balance the success branch computes on the loaded user
CallbackBalance(type, ubal, amount) ==
    IF type = "deposit" THEN ubal + amount
    ELSE IF type = "withdrawal" THEN ubal - amount
    ELSE ubal

\* a catch that stores a document made of the two paths it computed
RetryReplace(snap) ==
    LET t == snap.id
        inc == incrementRetryCount(snap.st, snap.rc, txs[t].maxRetries)
    IN [txs EXCEPT ![t] = [NoTx EXCEPT !.status = inc.status,
                                       !.retryCount = inc.retryCount]]

\* a catch that adds one to the stored count instead of storing the
\* count it computed on the document it loaded
RetryAddStored(snap) ==
    LET t == snap.id
        inc == incrementRetryCount(snap.st, snap.rc, txs[t].maxRetries)
    IN [txs EXCEPT ![t].retryCount = @ + 1,
                   ![t].status = SavePath(@, snap.st, inc.status)]

\* the catch of a sweeper's loop: transaction.incrementRetryCount();
\* transaction.save() on the transaction the sweeper loaded
RetrySave(snap) ==
    LET t == snap.id
        inc == incrementRetryCount(snap.st, snap.rc, txs[t].maxRetries)
    IN [txs EXCEPT ![t].retryCount = SavePath(@, snap.rc, inc.retryCount),
                   ![t].status = SavePath(@, snap.st, inc.status)]

\* success branch: user.balance += / -= amount; user.save().  A balance
\* below the schema minimum fails validation and the save throws, as does a
\* write the database does not take (stored = FALSE): the webhook and GET
\* status log it, a sweeper's catch counts a retry.
handleSTKPushCallbackSaveUser(h, stored) ==
    /\ h.pc = "cb_saveUser"
    /\ LET r == h
           t == r.tx
           nb == CallbackBalance(txs[t].type, r.ubal, txs[t].amount)
       IN IF stored /\ BalanceValid(nb)
          THEN /\ balance' = [balance EXCEPT ![txs[t].user] = nb]
               /\ UNCHANGED txs
               /\ Move(h, CallbackDone(h, TRUE))
          ELSE /\ UNCHANGED balance
               /\ IF r.op \in Sweepers
                  THEN txs' = RetrySave(Head(r.queue))
                  ELSE UNCHANGED txs
               /\ Move(h, CallbackDone(h, FALSE))
    /\ UNCHANGED <<issued, ops, games, users, game, account, wrong>>

\* ------------------------------------------------- refund of a withdrawal
\* User.findById for the refund
RefundFindUser(h, next) ==
    /\ Move(h, [h EXCEPT !.pc = next,
                                !.ubal = balance[txs[h.tx].user]])
    /\ UNCHANGED <<txs, issued, balance, ops, games, users, game, account, wrong>>

\* user.balance += transaction.amount; user.save(); then the handler goes on
RefundSaveUser(h, after) ==
    /\ LET r == h
           t == r.tx
       IN balance' = [balance EXCEPT ![txs[t].user] = r.ubal + txs[t].amount]
    /\ Move(h, after)
    /\ UNCHANGED <<txs, issued, ops, games, users, game, account, wrong>>

\* ----------------------------------------------------- POST /mpesa/timeout
\* findByCheckoutId(CheckoutRequestID); nothing to do when there is none
TimeoutStart(cid) ==
    /\ Start(IF findByCheckoutId(cid) = 0
             THEN Response("timeout", "0", "none", cid, 0, "handled")
             ELSE [Idle EXCEPT !.op = "timeout", !.pc = "t_save",
                               !.tx = cid, !.lst = txs[cid].status])
    /\ UNCHANGED <<txs, issued, balance, games, users, game, account, wrong>>

\* transaction.markAsFailed('Transaction timed out'); transaction.save()
TimeoutSave(h) ==
    /\ h.op = "timeout" /\ h.pc = "t_save"
    /\ LET r == h
           t == r.tx
       IN /\ txs' = [txs EXCEPT ![t].status =
                         SavePath(@, r.lst, markAsFailed(r.lst))]
          /\ IF txs[t].type = "withdrawal"
             THEN Move(h, [r EXCEPT !.pc = "t_findUser", !.prev = txs[t].status])
             ELSE Finish(h)
    /\ UNCHANGED <<issued, balance, ops, games, users, game, account, wrong>>

TimeoutFindUser(h) ==
    /\ h.op = "timeout" /\ h.pc = "t_findUser"
    /\ RefundFindUser(h, "t_saveUser")

TimeoutSaveUser(h) ==
    /\ h.op = "timeout" /\ h.pc = "t_saveUser"
    /\ RefundSaveUser(h, Idle)

\* ------------------------------------------ POST /transactions/:id/cancel
\* a findOne that filters on the _id alone
CancelFindById(t, u) == IF Exists(t) THEN t ELSE 0

\* Transaction.findOne({_id, user, status: {$in: ['pending','processing']}})
CancelFind(t, u) ==
    IF Exists(t) /\ txs[t].user = u /\ txs[t].status \in NonTerminal
    THEN t ELSE 0

CancelStart(u, t) ==
    /\ Start(IF ~auth(u) THEN Unauthorized("cancel", u, t, 0)
             ELSE IF CancelFind(t, u) = 0
             THEN Response("cancel", "404", u, t, 0, "notFound")
             ELSE [Idle EXCEPT !.op = "cancel", !.pc = "x_save", !.user = u,
                               !.tx = t, !.lst = txs[t].status])
    /\ UNCHANGED <<txs, issued, balance, games, users, game, account, wrong>>

\* transaction.status = 'cancelled'; transaction.save()
CancelSave(h) ==
    /\ h.op = "cancel" /\ h.pc = "x_save"
    /\ LET r == h
           t == r.tx
       IN /\ txs' = [txs EXCEPT ![t].status = SavePath(@, r.lst, "cancelled")]
          /\ IF txs[t].type = "withdrawal"
             THEN Move(h, [r EXCEPT !.pc = "x_findUser", !.prev = txs[t].status])
             ELSE Move(h, [r EXCEPT !.pc = "x_respond", !.prev = txs[t].status])
    /\ UNCHANGED <<issued, balance, ops, games, users, game, account, wrong>>

CancelFindUser(h) ==
    /\ h.op = "cancel" /\ h.pc = "x_findUser"
    /\ RefundFindUser(h, "x_saveUser")

CancelSaveUser(h) ==
    /\ h.op = "cancel" /\ h.pc = "x_saveUser"
    /\ RefundSaveUser(h, Idle)

\* res.json('Transaction cancelled successfully') of a cancelled deposit
CancelRespond(h) ==
    /\ h.op = "cancel" /\ h.pc = "x_respond"
    /\ Finish(h)
    /\ UNCHANGED <<txs, issued, balance, ops, games, users, game, account, wrong>>

\* ------------------------------------------ GET /transactions/:id/status
\* a route that queries the provider for every Transaction of the user
StatusStartAlways(u, t) ==
    /\ Start(IF ~auth(u) THEN Unauthorized("status", u, t, 0)
             ELSE IF ~(Exists(t) /\ txs[t].user = u)
             THEN Response("status", "404", u, t, 0, "notFound")
             ELSE [Idle EXCEPT !.op = "status", !.pc = "st_query",
                               !.user = u, !.tx = t, !.lst = txs[t].status,
                               !.queue = Snapshot({t})])
    /\ UNCHANGED <<txs, issued, balance, games, users, game, account, wrong>>

\* findOne({_id, user}): 404 when there is none; a pending or processing one
\* is queried, any other is answered as it is
StatusStart(u, t) ==
    /\ Start(IF ~auth(u) THEN Unauthorized("status", u, t, 0)
             ELSE IF ~(Exists(t) /\ txs[t].user = u)
             THEN Response("status", "404", u, t, 0, "notFound")
             ELSE IF txs[t].status \in NonTerminal
             THEN [Idle EXCEPT !.op = "status", !.pc = "st_query",
                               !.user = u, !.tx = t, !.lst = txs[t].status,
                               !.queue = Snapshot({t})]
             ELSE Response("status", "200", u, t, 0, "current"))
    /\ UNCHANGED <<txs, issued, balance, games, users, game, account, wrong>>

\* queryTransactionStatus answers (res is "error" when it throws); only
\* ResultCode '0' on a not yet completed document enters the callback.
\* queue keeps the document the route loaded, which res.json reads at the
\* end
StatusQuery(h, res) ==
    /\ h.op = "status" /\ h.pc = "st_query"
    /\ IF res = "0" /\ h.lst # "completed"
       THEN Move(h, CallbackEnter([Idle EXCEPT !.op = "status",
                                               !.queue = h.queue],
                                  h.tx, res))
       ELSE Finish(h)
    /\ UNCHANGED <<txs, issued, balance, ops, games, users, game, account, wrong>>

\* ----------------------------------------------------------- the sweepers
\* MpesaService.processPendingTransactions: findPendingTransactions()
PendingSweepStart(ages) ==
    /\ txs' = Aged(ages)
    /\ LET q == Snapshot(findPendingTransactions(ages))
       IN Start(IF q = <<>> THEN Idle
                ELSE [Idle EXCEPT !.op = "pendingSweep", !.pc = "sw_query",
                                  !.queue = q])
    /\ UNCHANGED <<issued, balance, games, users, game, account, wrong>>

\* CronService.processStuckTransactions: Transaction.find(older than 1 hour)
StuckSweepStart(ages) ==
    /\ txs' = Aged(ages)
    /\ LET q == Snapshot(findStuckTransactions(ages))
       IN Start(IF q = <<>> THEN Idle
                ELSE [Idle EXCEPT !.op = "stuckSweep", !.pc = "sw_query",
                                  !.queue = q])
    /\ UNCHANGED <<issued, balance, games, users, game, account, wrong>>

\* one iteration of processPendingTransactions: the status query answers
\* (res is "error" when it throws) and the loop body acts on the answer
processPendingTransactions(h, res) ==
    /\ h.op = "pendingSweep" /\ h.pc = "sw_query"
    /\ LET r == h
           snap == Head(r.queue)
           t == snap.id
       IN CASE res = "0" ->
                 /\ Move(h, CallbackEnter(r, t, res))
                 /\ UNCHANGED txs
            [] res = "103" ->
                 /\ Move(h, SweepNext(r))
                 /\ UNCHANGED txs
            [] res = "error" ->
                 /\ txs' = RetrySave(snap)
                 /\ Move(h, SweepNext(r))
            [] OTHER ->
                 /\ txs' = [txs EXCEPT ![t].status =
                                SavePath(@, snap.st, markAsFailed(snap.st))]
                 /\ Move(h, SweepNext(r))
    /\ UNCHANGED <<issued, balance, ops, games, users, game, account, wrong>>

\* one iteration of processStuckTransactions; a failed withdrawal goes on
\* to the refund
processStuckTransactions(h, res) ==
    /\ h.op = "stuckSweep" /\ h.pc = "sw_query"
    /\ LET r == h
           snap == Head(r.queue)
           t == snap.id
       IN CASE res = "0" ->
                 /\ Move(h, CallbackEnter(r, t, res))
                 /\ UNCHANGED txs
            [] res = "103" ->
                 /\ Move(h, SweepNext(r))
                 /\ UNCHANGED txs
            [] res = "error" ->
                 /\ txs' = RetrySave(snap)
                 /\ Move(h, SweepNext(r))
            [] OTHER ->
                 /\ txs' = [txs EXCEPT ![t].status =
                                SavePath(@, snap.st, markAsFailed(snap.st))]
                 /\ IF txs[t].type = "withdrawal"
                    THEN Move(h, [r EXCEPT !.pc = "sw_findUser", !.tx = t,
                                           !.lst = snap.st,
                                           !.prev = txs[t].status])
                    ELSE Move(h, SweepNext(r))
    /\ UNCHANGED <<issued, balance, ops, games, users, game, account, wrong>>

StuckFindUser(h) ==
    /\ h.op = "stuckSweep" /\ h.pc = "sw_findUser"
    /\ RefundFindUser(h, "sw_saveUser")

StuckSaveUser(h) ==
    /\ h.op = "stuckSweep" /\ h.pc = "sw_saveUser"
    /\ RefundSaveUser(h, SweepNext(h))

\* an updateMany whose filter has no cut-off date
cleanupEveryFailed(ages) ==
    /\ ~Responding /\ ops < MaxOps
    /\ ops' = ops + 1
    /\ txs' = [t \in TxIds |->
                 IF txs[t].status = "failed"
                 THEN [txs[t] EXCEPT !.status = "cancelled", !.age = ages[t]]
                 ELSE [txs[t] EXCEPT !.age = ages[t]]]
    /\ UNCHANGED <<issued, balance, procs, games, users, game, account, wrong>>

\* CronService.cleanupOldTransactions: one updateMany of the failed
\* transactions created more than 7 days ago
cleanupOldTransactions(ages) ==
    /\ ~Responding /\ ops < MaxOps
    /\ ops' = ops + 1
    /\ txs' = [t \in TxIds |->
                 IF txs[t].status = "failed" /\ ages[t] = 3
                 THEN [txs[t] EXCEPT !.status = "cancelled", !.age = ages[t]]
                 ELSE [txs[t] EXCEPT !.age = ages[t]]]
    /\ UNCHANGED <<issued, balance, procs, games, users, game, account, wrong>>

\* -------------------------------------------------- the admin's user routes
\* body('balance').optional().isFloat({ min: 0 }): the balances an admin sets
AdminBalances == {0, StartBalance}

\* PUT /users/:userId: validation, User.findById
adminUpdateStart(u, b) ==
    /\ Start(IF u \in users
             THEN [Idle EXCEPT !.op = "adminUpdate", !.pc = "au_save",
                               !.user = u, !.amt = b, !.ubal = balance[u]]
             ELSE Response("adminUpdate", "404", u, 0, b, "notFound"))
    /\ UNCHANGED <<txs, issued, balance, games, users, game, account, wrong>>

\* user[key] = updateData[key]; user.save()
adminUpdateSave(h) ==
    /\ h.op = "adminUpdate" /\ h.pc = "au_save"
    /\ balance' = [balance EXCEPT ![h.user] = SavePath(@, h.ubal, h.amt)]
    /\ Finish(h)
    /\ UNCHANGED <<txs, issued, ops, games, users, game, account, wrong>>

\* DELETE /users/:userId: User.findById; no user modelled here has the
\* admin role.  The route is taken up while no other handler is in flight,
\* and nothing else is taken up before it is done.
adminDeleteStart(u) ==
    /\ procs = EmptyBag
    /\ Start(IF u \in users
             THEN [Idle EXCEPT !.op = "adminDelete", !.pc = "ad_games",
                               !.user = u]
             ELSE Response("adminDelete", "404", u, 0, 0, "notFound"))
    /\ UNCHANGED <<txs, issued, balance, games, users, game, account, wrong>>

\* Game.deleteMany({ userId })
adminDeleteGames(h) ==
    /\ h.op = "adminDelete" /\ h.pc = "ad_games"
    /\ games' = IF h.user \in Users THEN 0 ELSE games
    /\ Move(h, [h EXCEPT !.pc = "ad_txs"])
    /\ UNCHANGED <<txs, issued, balance, ops, users, game, account, wrong>>

\* Transaction.deleteMany({ user: userId })
adminDeleteTransactions(h) ==
    /\ h.op = "adminDelete" /\ h.pc = "ad_txs"
    /\ txs' = [t \in TxIds |-> IF txs[t].user = h.user THEN NoTx ELSE txs[t]]
    /\ Move(h, [h EXCEPT !.pc = "ad_user"])
    /\ UNCHANGED <<issued, balance, ops, games, users, game, account, wrong>>

\* User.findByIdAndDelete(userId)
adminDeleteUser(h) ==
    /\ h.op = "adminDelete" /\ h.pc = "ad_user"
    /\ users' = users \ {h.user}
    /\ Finish(h)
    /\ UNCHANGED <<txs, issued, balance, ops, games, game, account, wrong>>

QueryResults == ResultCodes \cup {"error"}

\* response.data.ResponseCode of an initiate call: '0', another code ("1"),
\* or no response at all ("error")
GatewayAnswers == {"0", "1", "error"}

\* a callback's ResultCode is '0' or not: "1032" stands for every other one
CallbackCodes == {"0", "1032"}

Next ==
    \/ \E u \in Users, a \in Amounts : DepositStart(u, a)
    \/ \E u \in Users, a \in Amounts : WithdrawStart(u, a)
    \/ \E cid \in 0..issued, c \in CallbackCodes : CallbackStart(cid, c)
    \/ \E cid \in 0..issued : TimeoutStart(cid)
    \/ \E u \in Requesters, t \in TxIds : CancelStart(u, t)
    \/ \E u \in Users, t \in TxIds : StatusStart(u, t)
    \/ \E ages \in Clock : PendingSweepStart(ages)
    \/ \E ages \in Clock : StuckSweepStart(ages)
    \/ \E ages \in Clock : cleanupOldTransactions(ages)
    \/ \E u \in Users, a \in Amounts : GameStart(u, a)
    \/ \E h \in Handlers : Respond(h)
    \/ \E h \in Ready :
          \/ \E ans \in GatewayAnswers : initiateSTKPush(h, ans)
          \/ initiateSTKPushSave(h)
          \/ \E ans \in GatewayAnswers : initiateWithdrawal(h, ans)
          \/ initiateWithdrawalSave(h)
          \/ WithdrawSaveUser(h)
          \/ handleSTKPushCallbackSave(h)
          \/ handleSTKPushCallbackFindUser(h)
          \/ \E stored \in BOOLEAN : handleSTKPushCallbackSaveUser(h, stored)
          \/ TimeoutSave(h)
          \/ TimeoutFindUser(h)
          \/ TimeoutSaveUser(h)
          \/ CancelSave(h)
          \/ CancelFindUser(h)
          \/ CancelSaveUser(h)
          \/ CancelRespond(h)
          \/ \E res \in QueryResults : StatusQuery(h, res)
          \/ \E res \in QueryResults : processPendingTransactions(h, res)
          \/ \E res \in QueryResults : processStuckTransactions(h, res)
          \/ StuckFindUser(h)
          \/ StuckSaveUser(h)
          \/ GameSaveUser(h)

Spec == Init /\ [][Next]_vars

TypeOK ==
    /\ \A t \in TxIds : /\ txs[t].status \in Statuses \cup {"none"}
                         /\ txs[t].age \in Ages
    /\ issued \in 0..MaxTx
    /\ ops \in 0..MaxOps
    /\ games \in 0..MaxOps
    /\ users \subseteq Requesters

\* =================================================================
\* Properties
\* =================================================================

\* handler h takes the step
Steps(h) == CopiesIn(h, procs') < CopiesIn(h, procs)

CallbackBalancePcs == {"cb_findUser", "cb_saveUser"}

\* no handler is in flight
AllIdle == BagCardinality(procs) = 0

\* t is the only Transaction there is
OnlyEntry(t) == \A o \in TxIds \ {t} : ~Exists(o)

\* C1: however often confirmations that reference a deposit's
\* checkoutRequestId were delivered, once they are all handled (and no game
\* bet was placed) the owner's balance has changed by nothing or by the
\* deposit's amount, once.
C1_OneDeltaPerReference ==
    \A t \in TxIds :
        (txs[t].type = "deposit" /\ OnlyEntry(t) /\ AllIdle /\ games = 0)
        => balance[txs[t].user] \in {StartBalance, StartBalance + txs[t].amount}

\* C2: a success confirmation that loaded the entry while it was pending or
\* processing, and finds at its own status write that another confirmation
\* has completed the entry meanwhile, lost the race: its steps leave the
\* balance as it is.
C2_RaceLoserWritesNoBalance ==
    [][\A h \in Handlers :
         ( /\ Steps(h)
           /\ h.pc \in CallbackBalancePcs
           /\ h.lst \in NonTerminal
           /\ h.prev = "completed" )
         => balance' = balance]_vars

\* C3: a completed or cancelled Transaction keeps its status in every step.
C3_TerminalIsFinal ==
    [][\A t \in TxIds :
         txs[t].status \in Terminal => txs'[t].status = txs[t].status]_vars

\* C4: a withdrawal that is failed or cancelled, once every handler is
\* done, has had its amount added back exactly once: the owner's balance is
\* what it was before the request.
C4_FailedWithdrawalRefundedOnce ==
    \A t \in TxIds :
        ( /\ txs[t].type = "withdrawal"
          /\ txs[t].status \in {"failed", "cancelled"}
          /\ OnlyEntry(t) /\ AllIdle /\ games = 0 )
        => balance[txs[t].user] = StartBalance

\* C5: a completed withdrawal, once every handler is done, has reduced the
\* owner's balance by exactly its amount.
C5_CompletedWithdrawalDebitedOnce ==
    \A t \in TxIds :
        ( /\ txs[t].type = "withdrawal"
          /\ txs[t].status = "completed"
          /\ OnlyEntry(t) /\ AllIdle /\ games = 0 )
        => balance[txs[t].user] = StartBalance - txs[t].amount

\* C6: while a deposit is pending, processing, failed or cancelled the
\* owner's balance is what it would be without the deposit.
C6_DepositOnlyCreditsWhenCompleted ==
    \A t \in TxIds :
        ( /\ txs[t].type = "deposit"
          /\ txs[t].status \in {"pending", "processing", "failed", "cancelled"}
          /\ OnlyEntry(t) /\ games = 0 )
        => balance[txs[t].user] = StartBalance

\* C7: of a user cancel and a success confirmation racing on one entry the
\* loser changes nothing: a cancel whose entry was completed before its
\* write, and a confirmation whose entry was cancelled before its write,
\* leave the entry as it is.
C7_CancelConfirmOneWinner ==
    [][\A h \in Handlers :
         ( /\ Steps(h)
           /\ h.lst \in NonTerminal
           /\ \/ /\ h.op = "cancel" /\ h.pc = "x_save"
                 /\ txs[h.tx].status = "completed"
              \/ /\ h.pc = "cb_save" /\ h.code = "0"
                 /\ txs[h.tx].status = "cancelled" )
         => txs' = txs]_vars

\* the edges of the specified state machine
Edges == {<<"pending", "processing">>, <<"pending", "failed">>,
          <<"processing", "completed">>, <<"processing", "failed">>,
          <<"pending", "cancelled">>, <<"processing", "cancelled">>,
          <<"failed", "cancelled">>}

\* C8: every status change of an existing Transaction is an edge of the
\* specified state machine.
C8_OnlySpecifiedEdges ==
    [][\A t \in TxIds :
         (Exists(t) /\ txs'[t].status # txs[t].status)
         => <<txs[t].status, txs'[t].status>> \in Edges]_vars

\* C9: no step sets the status of a Transaction that has left pending back
\* to pending.
C9_NeverBackToPending ==
    [][\A t \in TxIds :
         (Exists(t) /\ txs[t].status # "pending")
         => txs'[t].status # "pending"]_vars

\* a handler that loaded the entry as pending has written to it after the
\* entry had left pending
C9_Witness ==
    \E h \in Handlers :
        /\ h.tx \in TxIds
        /\ h.lst = "pending"
        /\ h.prev \in Statuses \ {"pending"}
        /\ txs[h.tx].status # "pending"

ConfirmationPcs == {"cb_save", "cb_findUser", "cb_saveUser",
                    "t_save", "t_findUser", "t_saveUser"}

\* C10: a confirmation (callback, timeout notice, sweeper or status-poll
\* result) that loaded the entry completed or cancelled is a no-op: none of
\* its steps changes a Transaction or a balance.
C10_TerminalConfirmationIsNoOp ==
    [][\A h \in Handlers :
         ( /\ Steps(h)
           /\ h.pc \in ConfirmationPcs
           /\ h.lst \in Terminal )
         => (txs' = txs /\ balance' = balance)]_vars

\* handler h is taken up in the step
Arrives(h) == CopiesIn(h, procs') > CopiesIn(h, procs)

\* what the claim lists as failing validation, for the deposit or withdraw
\* request h on the state it meets
RequestInvalid(h) ==
    \/ /\ h.op = "deposit"
       /\ \/ h.amt < DepositMin \/ h.amt > DepositMax
          \/ Cardinality(PendingOf(h.user)) >= DepositPendingLimit
    \/ /\ h.op = "withdraw"
       /\ \/ h.amt < WithdrawMin \/ h.amt > WithdrawMax
          \/ h.amt > balance[h.user]
          \/ h.amt > WithdrawalLimitDefault
          \/ Cardinality(PendingOf(h.user)) >= WithdrawPendingLimit

RefundPcs == {"sw_findUser", "sw_saveUser"}

\* C13: a withdrawal was requested, accepted and debited, and nothing else
\* has happened to it when a sweeper polls it and the provider reports a
\* failure.  When the sweeper is done with the entry, the entry is failed
\* and the owner's balance is what it was before the request, whichever of
\* the two sweeper jobs it is.
C13_SweeperFailureRestoresBalance ==
    [][\A h \in Handlers :
         ( /\ Steps(h) /\ h.op \in Sweepers
           /\ ops = 2 /\ BagCardinality(procs) = 1
           /\ LET t == Head(h.queue).id
              IN /\ OnlyEntry(t)
                 /\ txs[t].type = "withdrawal"
                 /\ txs'[t].status = "failed"
                 /\ balance[txs[t].user] = StartBalance - txs[t].amount
                 /\ h.pc \in RefundPcs => h.ubal = balance[txs[t].user]
           /\ \A r \in BagToSet(procs') : r.pc \notin RefundPcs )
         => balance'[txs[Head(h.queue).id].user] = StartBalance]_vars

\* what the entries in S add to their owner u's balance: the amount of a
\* completed deposit, minus the amount of a withdrawal that is neither
\* failed nor cancelled
RECURSIVE LedgerSum(_, _)
LedgerSum(S, u) ==
    IF S = {} THEN 0
    ELSE LET t == CHOOSE x \in S : TRUE
             d == IF txs[t].user # u THEN 0
                  ELSE IF txs[t].type = "deposit"
                       THEN (IF txs[t].status = "completed"
                             THEN txs[t].amount ELSE 0)
                       ELSE (IF txs[t].status \in {"failed", "cancelled"}
                             THEN 0 ELSE 0 - txs[t].amount)
         IN d + LedgerSum(S \ {t}, u)

\* C14: with no game played, whenever no handler is in the middle of a
\* transition the balance of every user is the starting balance plus the
\* user's completed deposits minus the user's withdrawals that are not
\* failed or cancelled.
C14_BalanceIsLedgerSum ==
    (games = 0 /\ AllIdle)
    => \A u \in Users :
          balance[u] = StartBalance + LedgerSum({t \in TxIds : Exists(t)}, u)

\* C15: a cancel request for an entry that does not exist, belongs to
\* another user, or is completed, failed or cancelled is answered 404 at
\* once, and the step changes no Transaction and no balance; a cancel
\* request is only taken up for a pending or processing entry of the
\* requesting user.
C15_CancelOnlyOwnNonTerminal ==
    [][\A h \in BagToSet(procs') :
         ( /\ Arrives(h) /\ ops' = ops + 1
           /\ h.op = "cancel"
           /\ ~( /\ Exists(h.tx)
                 /\ txs[h.tx].user = h.user
                 /\ txs[h.tx].status \in NonTerminal ) )
         => ( /\ h.pc = "respond" /\ h.code = "404"
              /\ txs' = txs /\ balance' = balance )]_vars

\* the owner's cancel request for a completed, failed or cancelled entry is
\* being refused
C15_Witness ==
    \E h \in Handlers :
        /\ h.op = "cancel" /\ h.pc = "respond" /\ h.code = "404"
        /\ Exists(h.tx) /\ txs[h.tx].user = h.user
        /\ txs[h.tx].status \in {"completed", "failed", "cancelled"}

\* C16: the step that stores the entry of an accepted initiate request
\* stores it in status processing, and a confirmation or timeout notice
\* that references a checkout id the gateway has handed out finds its
\* entry.
C16_ProcessingBeforeConfirmation ==
    [][/\ \A h \in Handlers :
            (Steps(h) /\ h.pc = "saveTx")
            => txs'[h.tx].status = "processing"
       /\ \A h \in BagToSet(procs') :
            ( /\ Arrives(h) /\ ops' = ops + 1
              /\ h.op \in {"callback", "timeout"}
              /\ h.tx \in 1..issued )
            => h.pc # "respond"]_vars

\* C17: when a deposit's initiate call fails with a network error, the
\* step leaves a new entry in pending and changes no balance.
C17_UnreachableLeavesPending ==
    [][\A r \in BagToSet(procs') :
         ( /\ Arrives(r) /\ r.pc = "respond"
           /\ r.op = "deposit" /\ r.lst = "unreachable" )
         => ( /\ \E t \in TxIds : /\ ~Exists(t)
                                  /\ txs'[t].status = "pending"
                                  /\ txs'[t].type = "deposit"
              /\ balance' = balance )]_vars

\* C18: when the gateway answers an initiate call with a ResponseCode
\* other than '0', the step leaves a new entry in failed and changes no
\* balance.
C18_RefusedEndsFailed ==
    [][\A r \in BagToSet(procs') :
         ( /\ Arrives(r) /\ r.pc = "respond"
           /\ r.op \in {"deposit", "withdraw"} /\ r.lst = "refused" )
         => ( /\ \E t \in TxIds : /\ ~Exists(t)
                                  /\ txs'[t].status = "failed"
                                  /\ txs'[t].user = r.user
              /\ balance' = balance )]_vars

\* C19: a confirmation or timeout notice whose checkout id matches no
\* Transaction is answered at once, without an error, as not found, and
\* the step changes no Transaction and no balance.
C19_UnknownReferenceReported ==
    [][\A r \in BagToSet(procs') :
         ( /\ Arrives(r) /\ ops' = ops + 1
           /\ r.op \in {"callback", "timeout"}
           /\ findByCheckoutId(r.tx) = 0 )
         => ( /\ r.pc = "respond" /\ r.lst = "notFound"
              /\ txs' = txs /\ balance' = balance )]_vars

\* C20: a completed deposit has its amount in the owner's balance, or a
\* handler is still at work on it: with no game played and no handler in
\* flight, the balance is at least the starting balance plus the amount.
C20_CompletedDeltaApplied ==
    \A t \in TxIds :
        ( /\ txs[t].type = "deposit" /\ txs[t].status = "completed"
          /\ OnlyEntry(t) /\ AllIdle /\ games = 0 )
        => balance[txs[t].user] >= StartBalance + txs[t].amount

\* =================================================================
\* The cron jobs that keep firing
\* =================================================================

\* a cron job fires once more after MaxOps handlers have started: the run
\* is not counted
CronFires ==
    /\ ~Responding /\ ~Deleting
    /\ BagCardinality(procs) < MaxProcs /\ ops = MaxOps

\* cron.schedule('*/2 * * * *'): processPendingTransactions is run again
PendingSweepAgain(ages) ==
    /\ CronFires
    /\ txs' = Aged(ages)
    /\ LET q == Snapshot(findPendingTransactions(ages))
       IN Begin(IF q = <<>> THEN Idle
                ELSE [Idle EXCEPT !.op = "pendingSweep", !.pc = "sw_query",
                                  !.queue = q])
    /\ UNCHANGED <<issued, balance, ops, games, users, game, account, wrong>>

\* cron.schedule('*/10 * * * *'): processStuckTransactions is run again
StuckSweepAgain(ages) ==
    /\ CronFires
    /\ txs' = Aged(ages)
    /\ LET q == Snapshot(findStuckTransactions(ages))
       IN Begin(IF q = <<>> THEN Idle
                ELSE [Idle EXCEPT !.op = "stuckSweep", !.pc = "sw_query",
                                  !.queue = q])
    /\ UNCHANGED <<issued, balance, ops, games, users, game, account, wrong>>

\* the next await of handler h resolves
Resolves(h) ==
    \/ \E ans \in GatewayAnswers : initiateSTKPush(h, ans)
    \/ initiateSTKPushSave(h)
    \/ \E ans \in GatewayAnswers : initiateWithdrawal(h, ans)
    \/ initiateWithdrawalSave(h)
    \/ WithdrawSaveUser(h)
    \/ handleSTKPushCallbackSave(h)
    \/ handleSTKPushCallbackFindUser(h)
    \/ \E stored \in BOOLEAN : handleSTKPushCallbackSaveUser(h, stored)
    \/ TimeoutSave(h) \/ TimeoutFindUser(h) \/ TimeoutSaveUser(h)
    \/ CancelSave(h) \/ CancelFindUser(h) \/ CancelSaveUser(h)
    \/ CancelRespond(h)
    \/ \E res \in QueryResults : StatusQuery(h, res)
    \/ \E res \in QueryResults : processPendingTransactions(h, res)
    \/ \E res \in QueryResults : processStuckTransactions(h, res)
    \/ StuckFindUser(h) \/ StuckSaveUser(h)
    \/ GameSaveUser(h)

\* the awaits a handler can be at
Pcs == {"gateway", "saveTx", "saveUser", "g_saveUser",
        "cb_save", "cb_findUser", "cb_saveUser",
        "t_save", "t_findUser", "t_saveUser",
        "x_save", "x_findUser", "x_saveUser", "x_respond",
        "st_query", "sw_query", "sw_findUser", "sw_saveUser"}

LiveNext ==
    \/ Next
    \/ \E ages \in Elapsed : PendingSweepAgain(ages)
    \/ \E ages \in Elapsed : StuckSweepAgain(ages)

\* node-cron fires both sweeper jobs again and again; every await of a
\* handler in flight resolves and every response is sent.  What the
\* provider answers is not constrained.
Fairness ==
    /\ WF_vars(\E ages \in Elapsed : \/ PendingSweepStart(ages)
                                      \/ PendingSweepAgain(ages))
    /\ WF_vars(\E ages \in Elapsed : \/ StuckSweepStart(ages)
                                      \/ StuckSweepAgain(ages))
    /\ \A p \in Pcs : WF_vars(\E h \in Ready : h.pc = p /\ Resolves(h))
    /\ WF_vars(\E h \in Handlers : Respond(h))

LiveSpec == Init /\ [][LiveNext]_vars /\ Fairness

\* C21: with both sweeper jobs run again and again, a Transaction that is
\* pending or processing is eventually completed, failed or cancelled.
C21_NonTerminalEventuallyLeaves ==
    \A t \in TxIds :
        (txs[t].status \in NonTerminal) ~> (txs[t].status \notin NonTerminal)

\* the handlers that work on a Transaction: the withdraw request that
\* reserves, and the confirmations, cancels and sweeps that finalize
LedgerOps == {"withdraw", "callback", "timeout", "cancel", "status",
              "pendingSweep", "stuckSweep"}

\* C22: a step that changes a balance is a step of a handler that creates or
\* finalizes a Transaction (the reservation of a withdraw request, a
\* completion, a refund); no other handler writes a balance.
C22_BalanceOnlyByLedgerSteps ==
    [][balance' # balance
       => \E h \in Handlers : Steps(h) /\ h.op \in LedgerOps]_vars

\* =================================================================
\* The system with the admin's user routes
\* =================================================================
AdminNext ==
    \/ Next
    \/ \E u \in Users, b \in AdminBalances : adminUpdateStart(u, b)
    \/ \E h \in Ready : adminUpdateSave(h)
    \/ \E u \in Requesters : adminDeleteStart(u)
    \/ \E h \in Ready : adminDeleteGames(h)
    \/ \E h \in Ready : adminDeleteTransactions(h)
    \/ \E h \in Ready : adminDeleteUser(h)

AdminSpec == Init /\ [][AdminNext]_vars

\* C23: a Transaction that exists still exists after every step.
C23_TransactionNeverDeleted ==
    [][\A t \in TxIds : Exists(t) => txs'[t].status # "none"]_vars

\* C24: every step leaves the user (owner), type (kind) and amount of
\* every existing Transaction as they are, and the Transaction under the
\* checkout id it was stored under.
C24_IdentityFieldsKept ==
    [][\A t \in TxIds :
         Exists(t) => /\ txs'[t].status # "none"
                      /\ txs'[t].user = txs[t].user
                      /\ txs'[t].type = txs[t].type
                      /\ txs'[t].amount = txs[t].amount]_vars

\* a sweeper's catch has counted a retry on a Transaction
C24_Witness ==
    \E t \in TxIds :
        /\ txs[t].retryCount > 0
        /\ txs[t].user \in Users /\ txs[t].amount \in Amounts
        /\ txs[t].type \in {"deposit", "withdrawal"}

\* the three paths a provider result reaches an entry on
ConfirmationPaths == {"callback", "pendingSweep", "stuckSweep"}

\* the Transaction handler h of ConfirmationPaths is at work on
EntryOf(h) == IF h.op = "callback" THEN h.tx ELSE Head(h.queue).id

\* the owner's balance once the request that created t is done and nothing
\* else has happened
BalanceAfterRequest(t) ==
    IF txs[t].type = "withdrawal" THEN StartBalance - txs[t].amount
    ELSE StartBalance

\* C25: an entry was created and nothing else has happened to it when the
\* provider's failure result reaches it, on the webhook or through one of
\* the two sweepers, with no other handler in flight.  When the path is
\* done the entry is failed and the owner's balance is the same whichever
\* path it was: the one the webhook leaves, which writes no balance.
C25_PathsConverge ==
    [][\A h \in Handlers :
         ( /\ Steps(h) /\ h.op \in ConfirmationPaths /\ h.pc # "respond"
           /\ ops = 2 /\ BagCardinality(procs) = 1 /\ procs' = EmptyBag
           /\ OnlyEntry(EntryOf(h))
           /\ txs'[EntryOf(h)].status = "failed" )
         => balance'[txs[EntryOf(h)].user]
              = BalanceAfterRequest(EntryOf(h))]_vars

\* the sweeper runs in flight
SweeperRuns == {h \in Handlers : h.op \in Sweepers}

\* C26: at most one sweeper run is in flight at any time, so no two of them
\* hold the same Transaction.
C26_SweepsNeverOverlap ==
    \A h \in SweeperRuns :
        /\ CopiesIn(h, procs) = 1
        /\ \A g \in SweeperRuns : g = h

\* C27: a sweeper's status query throws for a Transaction the sweeper
\* holds as it is stored.  The step adds one to retryCount; below
\* maxRetries it keeps the status, and once retryCount reaches maxRetries
\* the Transaction is failed and, for a withdrawal, the sweeper goes on to
\* add the amount back.
C27_RetryThenForcedFailed ==
    [][\A h \in Handlers :
         ( /\ Steps(h) /\ h.op \in Sweepers /\ h.pc = "sw_query"
           /\ Head(h.queue).st = txs[Head(h.queue).id].status
           /\ Head(h.queue).rc = txs[Head(h.queue).id].retryCount
           /\ txs'[Head(h.queue).id].retryCount
                # txs[Head(h.queue).id].retryCount )
         => LET t == Head(h.queue).id
            IN /\ txs'[t].retryCount = txs[t].retryCount + 1
               /\ IF txs'[t].retryCount >= txs[t].maxRetries
                  THEN /\ txs'[t].status = "failed"
                       /\ txs[t].type = "withdrawal"
                          => \E r \in BagToSet(procs') :
                                r.pc \in RefundPcs /\ r.tx = t
                  ELSE txs'[t].status = txs[t].status]_vars

C29_StatusQueriesOnlyNonTerminal ==
    [][\A h \in BagToSet(procs') :
         (Arrives(h) /\ ops' = ops + 1 /\ h.op = "status")
         => /\ txs' = txs /\ balance' = balance
            /\ h.pc = "st_query"
                 <=> ( /\ Exists(h.tx) /\ txs[h.tx].user = h.user
                       /\ txs[h.tx].status \in NonTerminal )
            /\ h.pc # "st_query" => h.pc = "respond"]_vars

\* the owner's GET status for a completed, failed or cancelled Transaction
\* is being answered
C29_Witness ==
    \E h \in Handlers :
        /\ h.op = "status" /\ h.pc = "respond" /\ h.code = "200"
        /\ txs[h.tx].user = h.user
        /\ txs[h.tx].status \in {"completed", "failed", "cancelled"}

\* C30: the webhook acknowledges a confirmation for a Transaction it
\* loaded completed or cancelled with ResultCode '0', and a callback
\* handler leaves only by sending its acknowledgement.
C30_TerminalAcknowledgedAsSuccess ==
    [][/\ \A r \in BagToSet(procs') :
            ( /\ Arrives(r) /\ r.op = "callback" /\ r.pc = "respond"
              /\ r.prev \in Terminal )
            => r.code = "0"
       /\ \A h \in Handlers :
            ( /\ Steps(h) /\ h.op = "callback"
              /\ \A r \in BagToSet(procs') : ~Arrives(r) )
            => h.pc = "respond"]_vars

\* C31: every Transaction's retryCount stays between 0 and its
\* maxRetries, in every reachable state, also when the two sweeper jobs
\* both catch an adapter error on the same entry in overlapping runs.
C31_RetryCountBounded ==
    \A t \in TxIds :
        txs[t] # NoTx =>
            /\ txs[t].retryCount >= 0
            /\ txs[t].retryCount <= txs[t].maxRetries

\* a Transaction whose retryCount has reached maxRetries while a second
\* sweeper that loaded it earlier has still to save its own count
C31_Witness ==
    \E t \in TxIds :
        /\ txs[t] # NoTx
        /\ txs[t].retryCount = txs[t].maxRetries
        /\ \E h \in Handlers :
              /\ h.op \in Sweepers
              /\ h.queue # <<>>
              /\ Head(h.queue).id = t
              /\ Head(h.queue).rc < txs[t].retryCount

\* ------------------------------------- requests on top of open entries
\* the entries a user can have open when a request arrives: one less than
\* the number at which POST /deposit refuses
MaxBacklog == DepositPendingLimit - 1

\* room for the open entries and one more for each handler in flight
BacklogIds == 1..(MaxBacklog + MaxProcs)

\* a user with up to MaxBacklog deposits accepted earlier and still
\* pending, and nothing in flight
BacklogInit ==
    /\ \E u \in Users, k \in 0..MaxBacklog :
          /\ txs = [t \in BacklogIds |->
                       IF t <= k THEN NewTransaction(u, "deposit", 100, t)
                       ELSE NoTx]
          /\ issued = k
    /\ balance = [u \in Users |-> StartBalance]
    /\ procs = EmptyBag
    /\ ops = 0
    /\ games = 0
    /\ users = Requesters
    /\ game = NoGame
    /\ account = Verified
    /\ wrong = 0

\* POST /deposit and POST /withdraw, step by step
BacklogNext ==
    \/ \E u \in Users, a \in Amounts : DepositStart(u, a)
    \/ \E u \in Users, a \in Amounts : WithdrawStart(u, a)
    \/ \E h \in Handlers : Respond(h)
    \/ \E h \in Ready, ans \in GatewayAnswers : initiateSTKPush(h, ans)
    \/ \E h \in Ready : initiateSTKPushSave(h)
    \/ \E h \in Ready, ans \in GatewayAnswers : initiateWithdrawal(h, ans)
    \/ \E h \in Ready : initiateWithdrawalSave(h)
    \/ \E h \in Ready : WithdrawSaveUser(h)

BacklogSpec == BacklogInit /\ [][BacklogNext]_vars

\* C32: a user never has more than 3 entries in pending or processing at
\* once, also when several requests of the same user are handled
\* concurrently.
C32_OpenEntriesAtMostThree ==
    \A u \in Users : Cardinality(PendingOf(u)) <= DepositPendingLimit

\* the requests whose initiate call is at the gateway or past it
Initiators == {"deposit", "withdraw"}

StatusReturns(h) ==
    /\ h.op = "status" /\ h.pc # "respond"
    /\ Steps(h)
    /\ \A r \in BagToSet(procs') : ~Arrives(r)

\* res.json({ data: { status: transaction.status } }) of the handler h:
\* the status of the document the route loaded
ReportedStatus(h) == Head(h.queue).st

\* C34: the status GET status returns is the entry's persisted status at
\* the time of the response: when the on-demand poll was answered '0' and
\* the route ran the confirmation, the response carries the status the
\* entry then has (completed), not the status read before the poll.
C34_StatusResponseIsCurrent ==
    [][\A h \in Handlers :
         (StatusReturns(h) /\ h.pc # "st_query")
         => ReportedStatus(h) = txs'[h.tx].status]_vars

\* =================================================================
\* The Game document and its methods (middleware/auth.js 172-397)
\* =================================================================

\* gridSize of POST /start at its smallest, the bombCount it places there
\* (floor(9 * 0.25)), baseMultiplier 1.14 and the schema default of
\* currentMultiplier 1.0, both in hundredths
GridSize == 3
BombCount == 2
BaseMultiplier == 114
MultiplierDefault == 100

\* safe reveals a game is followed for
MaxReveals == 3

\* tileIndex of a request: isInt({ min: 0 }), so also one past the grid
TileInputs == 0..(GridSize * GridSize)

\* the bombPositions POST /start may have drawn
BombLayouts == {{0, 1}, {4, 8}}

\* betAmount of the round in play
Bet == 100

SafeTiles == GridSize * GridSize - BombCount

\* new Game({...}) of POST /start with the schema defaults
NewGame(u, bombs) ==
    [status |-> "active", userId |-> u, revealedTiles |-> <<>>,
     tilesRevealed |-> 0,
     bombPositions |-> bombs, betAmount |-> Bet,
     currentMultiplier |-> MultiplierDefault, winnings |-> 0]

\* the elements of a revealedTiles array
Range(seq) == {seq[k] : k \in 1..Len(seq)}

\* parseFloat((baseMultiplier + safetyFactor * 0.5 - riskFactor * 0.3)
\* .toFixed(2)) in hundredths, remaining safe tiles rem
Multiplier(rem) ==
    LET tiles == GridSize * GridSize
        den == SafeTiles * tiles
        num == BaseMultiplier * den + 50 * rem * tiles
               - 30 * BombCount * SafeTiles
    IN (2 * num + den) \div (2 * den)

\* a revealTile that counts the tile and does not keep it
revealTileUnrecorded(doc, tileIndex) ==
    IF doc.status # "active" \/ tileIndex \in Range(doc.revealedTiles)
    THEN [doc |-> doc, threw |-> TRUE, exploded |-> FALSE]
    ELSE [doc |-> [doc EXCEPT !.tilesRevealed = @ + 1],
          threw |-> FALSE, exploded |-> FALSE]

\* gameSchema.methods.revealTile on the document doc: the document it
\* leaves, whether it threw, whether the tile was a bomb
revealTile(doc, tileIndex) ==
    IF doc.status # "active" \/ tileIndex \in Range(doc.revealedTiles)
    THEN [doc |-> doc, threw |-> TRUE, exploded |-> FALSE]
    ELSE IF tileIndex \in doc.bombPositions
    THEN [doc |-> [doc EXCEPT !.status = "exploded"],
          threw |-> FALSE, exploded |-> TRUE]
    ELSE LET n == doc.tilesRevealed + 1
             rem == SafeTiles - n
         IN [doc |-> [doc EXCEPT
                        !.revealedTiles = Append(@, tileIndex),
                        !.tilesRevealed = n,
                        !.currentMultiplier =
                            IF rem > 0 THEN Multiplier(rem) ELSE @],
             threw |-> FALSE, exploded |-> FALSE]

\* a cashOut that pays a game no tile of which was revealed
cashOutUnrevealed(doc) ==
    IF doc.status # "active"
    THEN [doc |-> doc, threw |-> TRUE]
    ELSE [doc |-> [doc EXCEPT
                     !.status = "cashed_out",
                     !.winnings = (doc.betAmount * doc.currentMultiplier)
                                  \div 100],
          threw |-> FALSE]

\* gameSchema.methods.cashOut on the document doc; winnings is
\* betAmount * currentMultiplier
cashOut(doc) ==
    IF doc.status # "active" \/ doc.tilesRevealed = 0
    THEN [doc |-> doc, threw |-> TRUE]
    ELSE [doc |-> [doc EXCEPT
                     !.status = "cashed_out",
                     !.winnings = (doc.betAmount * doc.currentMultiplier)
                                  \div 100],
          threw |-> FALSE]

\* ------------------------------------------ the methods on one document
\* POST /start has returned: the bet is taken off the balance and the Game
\* is stored as new Game({...}) made it
GameInit ==
    /\ txs = [t \in TxIds |-> NoTx]
    /\ issued = 0
    /\ procs = EmptyBag
    /\ ops = 0
    /\ games = 1
    /\ users = Requesters
    /\ account = Verified
    /\ wrong = 0
    /\ \E u \in Users, bombs \in BombLayouts :
          /\ game = NewGame(u, bombs)
          /\ balance = [v \in Users |->
                           IF v = u THEN StartBalance - Bet ELSE StartBalance]

\* game.revealTile(tileIndex) is called
CallRevealTile(tileIndex) ==
    /\ Len(game.revealedTiles) < MaxReveals
    /\ game' = revealTile(game, tileIndex).doc
    /\ UNCHANGED <<txs, issued, balance, procs, ops, games, users, account, wrong>>

\* game.cashOut() is called
CallCashOut ==
    /\ game' = cashOut(game).doc
    /\ UNCHANGED <<txs, issued, balance, procs, ops, games, users, account, wrong>>

MethodNext ==
    \/ \E tileIndex \in TileInputs : CallRevealTile(tileIndex)
    \/ CallCashOut

MethodSpec == GameInit /\ [][MethodNext]_vars

\* C37: after any sequence of revealTile calls on a game, revealedTiles
\* holds no tile twice and no bomb position, and tilesRevealed is the
\* number of its elements.
C37_RevealedTilesConsistent ==
    /\ \A j, k \in 1..Len(game.revealedTiles) :
          j # k => game.revealedTiles[j] # game.revealedTiles[k]
    /\ Range(game.revealedTiles) \cap game.bombPositions = {}
    /\ game.tilesRevealed = Len(game.revealedTiles)

\* a game with several tiles revealed on which a bomb was then hit
C37_Witness ==
    /\ Len(game.revealedTiles) >= 2
    /\ game.status = "exploded"

\* ------------------------------------- POST /reveal, /cashout, /abandon
\* game.save() of a loaded document: the paths the method changed are
\* written, and a tile pushed onto revealedTiles is pushed onto the
\* stored array
SaveGame(stored, loaded, new) ==
    [stored EXCEPT
       !.status = SavePath(@, loaded.status, new.status),
       !.tilesRevealed = SavePath(@, loaded.tilesRevealed, new.tilesRevealed),
       !.currentMultiplier =
           SavePath(@, loaded.currentMultiplier, new.currentMultiplier),
       !.winnings = SavePath(@, loaded.winnings, new.winnings),
       !.revealedTiles =
           @ \o SubSeq(new.revealedTiles, Len(loaded.revealedTiles) + 1,
                       Len(new.revealedTiles))]

\* Game.findOne({ _id: gameId, userId }) and the status check of the
\* three routes: the response that refuses the request, Idle when it goes on
GameRefused(op, u, t) ==
    IF ~auth(u) THEN Unauthorized(op, u, t, 0)
    ELSE IF game.userId # u THEN Response(op, "404", u, t, 0, "notFound")
    ELSE IF game.status # "active"
    THEN Response(op, "400", u, t, 0, "notActive")
    ELSE Idle

\* POST /reveal up to game.revealTile(tileIndex); a throw of the method
\* ends in the route's catch
RevealStart(u, tileIndex) ==
    /\ Len(game.revealedTiles) < MaxReveals
    /\ Start(IF GameRefused("reveal", u, tileIndex) # Idle
             THEN GameRefused("reveal", u, tileIndex)
             ELSE IF revealTile(game, tileIndex).threw
             THEN Response("reveal", "500", u, tileIndex, 0, "threw")
             ELSE [Idle EXCEPT !.op = "reveal", !.pc = "r_saveGame",
                               !.user = u, !.tx = tileIndex,
                               !.queue = <<game>>])
    /\ UNCHANGED <<txs, issued, balance, games, users, game, account, wrong>>

\* POST /reveal: game.save() of the document revealTile changed (the
\* statistics saved on the user after a bomb are no balance)
RevealSaveGame(h) ==
    /\ h.op = "reveal" /\ h.pc = "r_saveGame"
    /\ game' = SaveGame(game, Head(h.queue),
                        revealTile(Head(h.queue), h.tx).doc)
    /\ Finish(h)
    /\ UNCHANGED <<txs, issued, balance, ops, games, users, account, wrong>>

\* POST /cashout up to game.cashOut()
CashoutStart(u) ==
    /\ Start(IF GameRefused("cashout", u, 0) # Idle
             THEN GameRefused("cashout", u, 0)
             ELSE IF cashOut(game).threw
             THEN Response("cashout", "500", u, 0, 0, "threw")
             ELSE [Idle EXCEPT !.op = "cashout", !.pc = "e_findUser",
                               !.user = u, !.queue = <<game>>])
    /\ UNCHANGED <<txs, issued, balance, games, users, game, account, wrong>>

\* POST /abandon up to the fields it sets on the loaded document
AbandonStart(u) ==
    /\ Start(IF GameRefused("abandon", u, 0) # Idle
             THEN GameRefused("abandon", u, 0)
             ELSE [Idle EXCEPT !.op = "abandon", !.pc = "e_findUser",
                               !.user = u, !.queue = <<game>>])
    /\ UNCHANGED <<txs, issued, balance, games, users, game, account, wrong>>

\* the two routes that end a game with a payment
Enders == {"cashout", "abandon"}

\* the document the route has in hand after cashOut() or after the
\* assignments of POST /abandon
Ended(h) ==
    IF h.op = "cashout" THEN cashOut(Head(h.queue)).doc
    ELSE [Head(h.queue) EXCEPT !.status = "abandoned"]

\* result.winnings of a cashout; refundAmount of an abandon:
\* floor(betAmount * tilesRevealed / safeTiles * 0.5)
Payment(h) ==
    IF h.op = "cashout" THEN Ended(h).winnings
    ELSE (Head(h.queue).betAmount * Head(h.queue).tilesRevealed)
         \div (2 * SafeTiles)

\* User.findById(userId) of the two routes
EndFindUser(h) ==
    /\ h.op \in Enders /\ h.pc = "e_findUser"
    /\ Move(h, IF h.user \in users
               THEN [h EXCEPT !.pc = "e_saveUser", !.ubal = balance[h.user]]
               ELSE [h EXCEPT !.pc = "e_saveGame"])
    /\ UNCHANGED <<txs, issued, balance, ops, games, users, game, account, wrong>>

\* user.balance += winnings or refundAmount; user.save()
EndSaveUser(h) ==
    /\ h.op \in Enders /\ h.pc = "e_saveUser"
    /\ LET nb == h.ubal + Payment(h)
       IN IF BalanceValid(nb)
          THEN /\ balance' = [balance EXCEPT ![h.user] = nb]
               /\ Move(h, [h EXCEPT !.pc = "e_saveGame"])
          ELSE /\ UNCHANGED balance
               /\ Move(h, Response(h.op, "500", h.user, 0, 0, "threw"))
    /\ UNCHANGED <<txs, issued, ops, games, users, game, account, wrong>>

\* game.save() of the two routes
EndSaveGame(h) ==
    /\ h.op \in Enders /\ h.pc = "e_saveGame"
    /\ game' = SaveGame(game, Head(h.queue), Ended(h))
    /\ Finish(h)
    /\ UNCHANGED <<txs, issued, balance, ops, games, users, account, wrong>>

GameNext ==
    \/ \E u \in Requesters, tileIndex \in TileInputs :
          RevealStart(u, tileIndex)
    \/ \E u \in Requesters : CashoutStart(u)
    \/ \E u \in Requesters : AbandonStart(u)
    \/ \E h \in Handlers : Respond(h)
    \/ \E h \in Ready : RevealSaveGame(h)
    \/ \E h \in Ready : EndFindUser(h)
    \/ \E h \in Ready : EndSaveUser(h)
    \/ \E h \in Ready : EndSaveGame(h)

GameSpec == GameInit /\ [][GameNext]_vars

\* what one cashout or one abandon of the game can add to the balance
SinglePayments ==
    {(Bet * m) \div 100 :
        m \in {Multiplier(rem) : rem \in 0..SafeTiles} \cup {MultiplierDefault}}
    \cup {(Bet * k) \div (2 * SafeTiles) : k \in 0..(MaxReveals + 1)}

\* C35: a game pays out at most once, whatever the interleaving of reveal,
\* cashout and abandon requests on it: once the game has left active no
\* request ends it again, and the owner's balance has received nothing or
\* one payout or refund on top of what POST /start left.
C35_GamePaysAtMostOnce ==
    [][ /\ game.status # "active" => game'.status = game.status
        /\ balance'[game.userId] = StartBalance - Bet
           \/ balance'[game.userId] - (StartBalance - Bet) \in SinglePayments
      ]_vars

\* the routes that call revealTile or cashOut
MethodRoutes == {"reveal", "cashout"}

\* C36: a game that has left active (cashed_out, exploded, abandoned) is
\* never active again; revealTile and cashOut called on such a game throw
\* and leave it as it is, and the routes answer 400 for it; cashOut throws
\* as well on an active game with no tile revealed, and POST /cashout
\* then changes nothing.
C36_EndedGameStaysEnded ==
    [][ /\ game.status # "active"
           => /\ game'.status # "active"
              /\ cashOut(game) = [doc |-> game, threw |-> TRUE]
              /\ \A tileIndex \in TileInputs :
                    /\ revealTile(game, tileIndex).threw
                    /\ revealTile(game, tileIndex).doc = game
        /\ game.tilesRevealed = 0
           => cashOut(game) = [doc |-> game, threw |-> TRUE]
        /\ \A r \in BagToSet(procs') :
              ( /\ Arrives(r) /\ ops' = ops + 1
                /\ r.op \in MethodRoutes /\ r.user = game.userId
                /\ \/ game.status # "active"
                   \/ r.op = "cashout" /\ game.tilesRevealed = 0 )
              => /\ r.pc = "respond"
                 /\ r.code = IF game.status # "active" THEN "400" ELSE "500"
                 /\ game' = game /\ balance' = balance
      ]_vars

\* the owner's cashout of a game that had exploded has been refused
C36_Witness ==
    /\ game.status = "exploded"
    /\ \E h \in Handlers :
          /\ h.op = "cashout" /\ h.pc = "respond" /\ h.code = "400"
          /\ h.user = game.userId

\* =================================================================
\* One-time passwords (part_002 188-234, routes/auth.js 113-152,
\* 269-306, 419-452)
\* =================================================================

\* if (this.otp.attempts >= 5)
OtpAttemptLimit == 5

\* wrong codes a sign-in is followed for
MaxWrong == 6

\* the six-digit codes generateOTP draws and a client sends
Codes == {"111111", "222222"}

\* the routes that call user.verifyOTP(otp)
OtpRoutes == {"verify-otp", "verify-login", "reset-password"}

\* userSchema.methods.verifyOTP(code) on a loaded user, within the two
\* hours before expiresAt: the otp and isVerified it leaves on the
\* document, what it returns, whether it threw
verifyOTP(user, code) ==
    IF user.otp.code = "none"
    THEN [user |-> user, valid |-> FALSE, threw |-> FALSE]
    ELSE IF user.otp.attempts >= OtpAttemptLimit
    THEN [user |-> user, valid |-> FALSE, threw |-> TRUE]
    ELSE IF user.otp.code = code
    THEN [user |-> [otp |-> NoOtp, isVerified |-> TRUE],
          valid |-> TRUE, threw |-> FALSE]
    ELSE [user |-> [user EXCEPT !.otp.attempts = @ + 1],
          valid |-> FALSE, threw |-> FALSE]

\* POST /register has stored an unverified user with a fresh OTP
OtpInit ==
    /\ txs = [t \in TxIds |-> NoTx]
    /\ issued = 0
    /\ balance = [u \in Users |-> StartBalance]
    /\ procs = EmptyBag
    /\ ops = 0
    /\ games = 0
    /\ users = Requesters
    /\ game = NoGame
    /\ \E code \in Codes :
          account = [otp |-> [code |-> code, attempts |-> 0],
                     isVerified |-> FALSE]
    /\ wrong = 0

\* generateOTP(); user.save() of /login, /resend-otp and /forgot-password:
\* a new code with attempts 0 replaces the old one
RequestOtp(code) ==
    /\ ~Responding
    /\ account' = [account EXCEPT !.otp = [code |-> code, attempts |-> 0]]
    /\ wrong' = 0
    /\ UNCHANGED <<txs, issued, balance, procs, ops, games, users, game>>

\* POST /verify-otp, /verify-login, /reset-password up to the answer of
\* user.verifyOTP(otp): User.findById, the isVerified check of /verify-otp,
\* then 400 with the thrown message, 400 'Invalid OTP', or on to the save
VerifyStart(route, code) ==
    /\ ~Responding /\ BagCardinality(procs) < MaxProcs
    /\ wrong < MaxWrong
    /\ LET r == verifyOTP(account, code)
       IN IF route = "verify-otp" /\ account.isVerified
          THEN /\ Begin(Response(route, "400", "u1", 0, 0, "alreadyVerified"))
               /\ UNCHANGED wrong
          ELSE IF r.threw
          THEN /\ Begin(Response(route, "400", "u1", 0, 0, "tooMany"))
               /\ UNCHANGED wrong
          ELSE IF r.valid
          THEN /\ Begin([Idle EXCEPT !.op = route, !.pc = "o_save",
                                     !.user = "u1", !.queue = <<account>>])
               /\ UNCHANGED wrong
          ELSE /\ Begin(Response(route, "400", "u1", 0, 0, "invalid"))
               /\ wrong' = IF account.otp.code = "none" THEN wrong
                           ELSE wrong + 1
    /\ UNCHANGED <<txs, issued, balance, ops, games, users, game, account>>

\* if (isValid) { await user.save(); ... }: the paths verifyOTP changed on
\* the loaded user are written, then the 200 is sent
VerifySave(h) ==
    /\ h.op \in OtpRoutes /\ h.pc = "o_save"
    /\ LET loaded == Head(h.queue)
           new == [otp |-> NoOtp, isVerified |-> TRUE]
       IN account' =
            [otp |-> SavePath(account.otp, loaded.otp, new.otp),
             isVerified |->
                 SavePath(account.isVerified, loaded.isVerified,
                          new.isVerified)]
    /\ Move(h, Response(h.op, "200", h.user, 0, 0, "verified"))
    /\ UNCHANGED <<txs, issued, balance, ops, games, users, game, wrong>>

OtpNext ==
    \/ \E code \in Codes : RequestOtp(code)
    \/ \E route \in OtpRoutes, code \in Codes : VerifyStart(route, code)
    \/ \E h \in Ready : VerifySave(h)
    \/ \E h \in Handlers : Respond(h)

OtpSpec == OtpInit /\ [][OtpNext]_vars

\* C38: once 5 verification attempts against an OTP have failed, every
\* further attempt on that OTP, through any of the three routes and also
\* with the right code, is rejected with 'Too many OTP attempts' until a
\* new OTP is generated.
C38_LockedAfterFiveFailures ==
    [][\A r \in BagToSet(procs') :
         ( /\ Arrives(r) /\ r.op \in OtpRoutes
           /\ BagCardinality(procs') > BagCardinality(procs)
           /\ wrong >= OtpAttemptLimit
           /\ account.otp.code # "none" )
         => r.pc = "respond" /\ r.code = "400" /\ r.lst = "tooMany"]_vars

====
